---- MODULE Spec2Model ----
(***************************************************************************)
(* websocket-monitor: the single-test execution engine (testWS), the       *)
(* success evaluator (TestResult.IsSuccess) and the event log (addLog) of  *)
(* src/wstest.go.                                                          *)
(*                                                                         *)
(* The websocket library and the peer are the environment.  A peer is a    *)
(* script: whether the URL can be dialled, the frames it sends in order,   *)
(* and the close code it sends after them (0: it stays silent).  Every     *)
(* library call returns either what the script says or a transport fault   *)
(* (timeout, network error, other error, failure to set a deadline); the   *)
(* variable faults records that some call returned a fault.                *)
(* Time is the monotonic clock time.Now().Sub(start) in abstract ticks; it  *)
(* advances while a library call blocks.                                   *)
(***************************************************************************)
EXTENDS Integers, Sequences, FiniteSets, TLC

VARIABLES
    wt,        \* the Test definition handed to testWS
    script,    \* the peer's whole script: [frames, close]
    peer,      \* what the peer has still to send: [frames, close]
    pc,        \* position of the run inside testWS
    wr,        \* the TestResult under construction / returned
    err,       \* the error testWS returns
    now,       \* time.Now().Sub(start)
    conn,      \* the connection handle c: [state, closes]
    deferred,  \* TRUE once `defer c.Close()` is registered
    lateIO,    \* a read or write was issued on a connection that is not open
    faults,    \* some library call returned a transport fault
    verdict,   \* the value IsSuccess returned, "none" before it is called
    io,        \* what WriteMessage and ReadMessage returned in handleWrite and
               \* handleRead so far, in call order
    drv,       \* the outer driver (main): flags, wait group, workers
    dur        \* a duration value and its encoded and decoded forms

vars == <<wt, script, peer, pc, wr, err, now, conn, deferred, lateIO, faults,
          verdict, io, drv, dur>>

(***************************** bounds **************************************)
MaxExpect == 2
MaxPeerFrames == 2
MaxClock == 2
MaxEvalLog == 2

(************************ constants of wstest.go ***************************)
LogConnect == "connect"
LogConnectSuccess == "connect_success"
LogConnectFail == "connect_fail"
LogServerClosedConnection == "server_closed_connection"
LogSetReadDeadlineFailed == "set_read_deadline_failed"
LogSetWriteDeadlineFailed == "set_write_deadline_failed"
LogReadMessage == "read_message"
LogReadMessageTimeout == "read_message_timeout"
LogReadMessageNetError == "read_message_net_error"
LogReadMessageError == "read_message_error"
LogReadMessageSuccess == "read_message_success"
LogWriteMessage == "write_message"
LogWriteMessageTimeout == "write_message_timeout"
LogWriteMessageNetError == "write_message_net_error"
LogWriteMessageError == "write_message_error"
LogWriteMessageSuccess == "write_message_success"
LogClientCloseConnection == "client_close_connection"
LogClientCloseConnectionSuccess == "client_close_connection_success"
LogClientCloseConnectionFailed == "client_close_connection_failed"

StepConnect == ""
StepSendText == ""
StepReadMessage == "read_message"
StepClientClose == ""
StepExpectedServerClose == "expected_server_close"
StepUnexpectedServerClose == "unexpected_server_close"

writeMessageFaliures ==
    {LogWriteMessageTimeout, LogWriteMessageNetError, LogWriteMessageError}

readMessageFaliures ==
    {LogReadMessageTimeout, LogReadMessageNetError, LogReadMessageError}

(****************************** values *************************************)
\* Go's nil error; every other error is named by a string.
Nil == "nil"

\* websocket.TextMessage / websocket.BinaryMessage, and the absent Log.Value.
TextMessage == "text"
BinaryMessage == "binary"
NoValue == "none"

\* The zero values of the structs.
ZeroTest ==
    [Name |-> "", URL |-> "", ExpectServerClose |-> 0, ExpectMessages |-> 0,
     SendTextMessage |-> "", MaxDuration |-> 0]

ZeroLog ==
    [CreatedAt |-> 0, Kind |-> "", Step |-> "", Err |-> Nil, Value |-> NoValue]

ZeroTestResult ==
    [ID |-> "", Test |-> ZeroTest, ConnectOK |-> FALSE, MessagesReceived |-> 0,
     Messages |-> <<>>, ServerCloseCode |-> 0, CloseOK |-> FALSE, Log |-> <<>>]

\* What a library call returns: its error (type, Timeout(), close code) and,
\* for a successful read, the frame.
NoError == [type |-> "none", timeout |-> FALSE, code |-> 0, name |-> Nil]
CloseError(c) == [type |-> "CloseError", timeout |-> FALSE, code |-> c, name |-> "close"]
NetTimeout == [type |-> "net.Error", timeout |-> TRUE, code |-> 0, name |-> "i/o timeout"]
NetReset == [type |-> "net.Error", timeout |-> FALSE, code |-> 0, name |-> "connection reset"]
OtherError == [type |-> "other", timeout |-> FALSE, code |-> 0, name |-> "error"]

NoFrame == [type |-> NoValue, body |-> ""]

(***************************** the event log *******************************)
\* addLog putting the event at the front of the log instead of its end.
addLogFront(r, kind, action, l, t) ==
    LET e == [l EXCEPT !.Kind = kind, !.Step = action,
                       !.CreatedAt = IF l.CreatedAt = 0 THEN t ELSE l.CreatedAt]
    IN  [r EXCEPT !.Log = <<e>> \o r.Log]

\* addLog(kind, action, log...): l is the optional Log item (ZeroLog when it is
\* absent), t is timestamp().MS(), the clock at the call.
addLog(r, kind, action, l, t) ==
    LET e == [l EXCEPT !.Kind = kind, !.Step = action,
                       !.CreatedAt = IF l.CreatedAt = 0 THEN t ELSE l.CreatedAt]
    IN  [r EXCEPT !.Log = Append(r.Log, e)]

(************************* the success evaluator ***************************)
\* The loop of IsSuccess over r.Log from index i: FALSE as soon as an event
\* makes it return false, TRUE when the loop runs to its end.
RECURSIVE scanLog(_, _)
scanLog(log, i) ==
    IF i > Len(log) THEN TRUE
    ELSE IF log[i].Kind \in writeMessageFaliures THEN FALSE
    ELSE IF log[i].Step = StepReadMessage /\ log[i].Kind \in readMessageFaliures
         THEN FALSE
    ELSE scanLog(log, i + 1)

\* IsSuccess without the check of the received-message count.
IsSuccessNoCount(r) ==
    LET t == r.Test IN
    IF t.ExpectServerClose # 0 /\ r.ServerCloseCode # t.ExpectServerClose
    THEN FALSE
    ELSE IF t.MaxDuration # 0 /\ Len(r.Log) = 0 THEN FALSE
    ELSE IF t.MaxDuration # 0 /\ r.Log[Len(r.Log)].CreatedAt > t.MaxDuration
         THEN FALSE
    ELSE scanLog(r.Log, 1)

\* TestResult.IsSuccess
IsSuccess(r) ==
    LET t == r.Test IN
    IF t.ExpectServerClose # 0 /\ r.ServerCloseCode # t.ExpectServerClose
    THEN FALSE
    ELSE IF t.ExpectMessages # 0 /\ r.MessagesReceived # t.ExpectMessages
         THEN FALSE
    ELSE IF t.MaxDuration # 0 /\ Len(r.Log) = 0 THEN FALSE
    ELSE IF t.MaxDuration # 0 /\ r.Log[Len(r.Log)].CreatedAt > t.MaxDuration
         THEN FALSE
    ELSE scanLog(r.Log, 1)

(*************************** the engine's steps ****************************)
\* Each step of testWS is a function of the result so far and of what the
\* library returned; it yields the result, the error the step hands to its
\* caller, and (ret) whether testWS returns there.

\* testWS, lines 160-216: the name check, the identifier, the result record and
\* the first event.  The timeouts' defaults (169-177) only parameterise the
\* library calls, whose outcome is the environment's choice here.
\* json.MarshalIndent of a Test cannot fail.
testWSBeginNoCheck(t, uuidErr, t0) ==
    IF uuidErr # Nil
    THEN [wr |-> ZeroTestResult, err |-> uuidErr, ret |-> TRUE]
    ELSE [wr |-> addLog([ZeroTestResult EXCEPT !.ID = "uuid", !.Test = t],
                        LogConnect, StepConnect, ZeroLog, t0),
          err |-> Nil, ret |-> FALSE]

testWSBegin(t, uuidErr, t0) ==
    IF t.Name = ""
    THEN [wr |-> ZeroTestResult, err |-> "test name cannot be empty", ret |-> TRUE]
    ELSE IF uuidErr # Nil
    THEN [wr |-> ZeroTestResult, err |-> uuidErr, ret |-> TRUE]
    ELSE [wr |-> addLog([ZeroTestResult EXCEPT !.ID = "uuid", !.Test = t],
                        LogConnect, StepConnect, ZeroLog, t0),
          err |-> Nil, ret |-> FALSE]

\* testWS, lines 218-225 with a failed dial that goes on as if connected.
testWSDialOnward(r, dialErr, t1) ==
    IF dialErr # Nil
    THEN [wr |-> addLog(r, LogConnectFail, StepConnect,
                        [ZeroLog EXCEPT !.Err = dialErr], t1),
          err |-> Nil, ret |-> FALSE]
    ELSE [wr |-> [addLog(r, LogConnectSuccess, StepConnect, ZeroLog, t1)
                    EXCEPT !.ConnectOK = TRUE],
          err |-> Nil, ret |-> FALSE]

\* testWS, lines 218-225: the outcome of dialer.Dial.
testWSDial(r, dialErr, t1) ==
    IF dialErr # Nil
    THEN [wr |-> addLog(r, LogConnectFail, StepConnect,
                        [ZeroLog EXCEPT !.Err = dialErr], t1),
          err |-> Nil, ret |-> TRUE]
    ELSE [wr |-> [addLog(r, LogConnectSuccess, StepConnect, ZeroLog, t1)
                    EXCEPT !.ConnectOK = TRUE],
          err |-> Nil, ret |-> FALSE]

\* handleWrite(ignoreTimeout, step): dlErr is what SetWriteDeadline returned, o
\* what WriteMessage returned; t0 is the clock before the write, t1 after it.
handleWrite(r, ignoreTimeout, step, dlErr, o, t0, t1) ==
    LET r1 == addLog(r, LogWriteMessage, step, ZeroLog, t0)
        le == [ZeroLog EXCEPT !.Err = o.name]
    IN
    IF dlErr # Nil
    THEN [wr |-> addLog(r1, LogSetWriteDeadlineFailed, step,
                        [ZeroLog EXCEPT !.Err = dlErr], t0),
          err |-> dlErr]
    ELSE IF o.type = "CloseError"
    THEN [wr |-> [addLog(r1, LogServerClosedConnection, step, le, t1)
                    EXCEPT !.ServerCloseCode = o.code],
          err |-> o.name]
    ELSE IF o.type = "net.Error" /\ o.timeout
    THEN [wr |-> addLog(r1, LogWriteMessageTimeout, step, ZeroLog, t1),
          err |-> IF ignoreTimeout THEN Nil ELSE o.name]
    ELSE IF o.type = "net.Error"
    THEN [wr |-> addLog(r1, LogWriteMessageNetError, step, le, t1), err |-> o.name]
    ELSE IF o.type # "none"
    THEN [wr |-> addLog(r1, LogWriteMessageError, step, le, t1), err |-> o.name]
    ELSE [wr |-> addLog(r1, LogWriteMessageSuccess, StepSendText, ZeroLog, t1),
          err |-> Nil]

\* The Received Message handleRead stores: a binary frame keeps its bytes, any
\* other frame is converted to a string.
WebsocketMessage(frame, t) ==
    [Type |-> frame.type,
     Body |-> IF frame.type = BinaryMessage THEN <<"bytes", frame.body>>
              ELSE <<"string", frame.body>>,
     ReceivedAt |-> t]

\* handleRead that stores a received message at the front of Messages.
handleReadFront(r, ignoreTimeout, step, dlErr, o, frame, t0, t1) ==
    LET r1 == addLog(r, LogReadMessage, step, ZeroLog, t0)
        le == [ZeroLog EXCEPT !.Err = o.name]
    IN
    IF dlErr # Nil
    THEN [wr |-> addLog(r, LogSetReadDeadlineFailed, step,
                        [ZeroLog EXCEPT !.Err = dlErr], t0),
          err |-> dlErr]
    ELSE IF o.type = "CloseError"
    THEN [wr |-> [addLog(r1, LogServerClosedConnection, step, le, t1)
                    EXCEPT !.ServerCloseCode = o.code],
          err |-> o.name]
    ELSE IF o.type = "net.Error" /\ o.timeout
    THEN [wr |-> addLog(r1, LogReadMessageTimeout, step, ZeroLog, t1),
          err |-> IF ignoreTimeout THEN Nil ELSE o.name]
    ELSE IF o.type = "net.Error"
    THEN [wr |-> addLog(r1, LogReadMessageNetError, step, le, t1), err |-> o.name]
    ELSE IF o.type # "none"
    THEN [wr |-> addLog(r1, LogReadMessageError, step, le, t1), err |-> o.name]
    ELSE LET r2 == addLog(r1, LogReadMessageSuccess, step,
                          [ZeroLog EXCEPT !.Value = frame.type], t1)
         IN  [wr |-> [r2 EXCEPT
                        !.Messages = <<WebsocketMessage(frame, t1)>> \o r2.Messages,
                        !.MessagesReceived = r2.MessagesReceived + 1],
              err |-> Nil]

\* handleRead(ignoreTimeout, step): dlErr is what SetReadDeadline returned, o and
\* frame what ReadMessage returned; t0 is the clock before the read, t1 after it.
handleRead(r, ignoreTimeout, step, dlErr, o, frame, t0, t1) ==
    LET r1 == addLog(r, LogReadMessage, step, ZeroLog, t0)
        le == [ZeroLog EXCEPT !.Err = o.name]
    IN
    IF dlErr # Nil
    THEN [wr |-> addLog(r, LogSetReadDeadlineFailed, step,
                        [ZeroLog EXCEPT !.Err = dlErr], t0),
          err |-> dlErr]
    ELSE IF o.type = "CloseError"
    THEN [wr |-> [addLog(r1, LogServerClosedConnection, step, le, t1)
                    EXCEPT !.ServerCloseCode = o.code],
          err |-> o.name]
    ELSE IF o.type = "net.Error" /\ o.timeout
    THEN [wr |-> addLog(r1, LogReadMessageTimeout, step, ZeroLog, t1),
          err |-> IF ignoreTimeout THEN Nil ELSE o.name]
    ELSE IF o.type = "net.Error"
    THEN [wr |-> addLog(r1, LogReadMessageNetError, step, le, t1), err |-> o.name]
    ELSE IF o.type # "none"
    THEN [wr |-> addLog(r1, LogReadMessageError, step, le, t1), err |-> o.name]
    ELSE LET r2 == addLog(r1, LogReadMessageSuccess, step,
                          [ZeroLog EXCEPT !.Value = frame.type], t1)
         IN  [wr |-> [r2 EXCEPT
                        !.Messages = Append(r2.Messages, WebsocketMessage(frame, t1)),
                        !.MessagesReceived = r2.MessagesReceived + 1],
              err |-> Nil]

\* The client close that sets close_ok whatever WriteMessage returned.
testWSClientCloseAlwaysOK(r, closeErr, t0, t1) ==
    LET r1 == addLog(r, LogClientCloseConnection, StepClientClose, ZeroLog, t0) IN
    IF closeErr # Nil
    THEN [wr |-> [addLog(r1, LogClientCloseConnectionFailed, StepClientClose,
                         [ZeroLog EXCEPT !.Err = closeErr], t1)
                    EXCEPT !.CloseOK = TRUE],
          err |-> Nil]
    ELSE [wr |-> [addLog(r1, LogClientCloseConnectionSuccess, StepClientClose,
                         ZeroLog, t1)
                    EXCEPT !.CloseOK = TRUE],
          err |-> Nil]

\* testWS, lines 342-357: closeErr is what the close frame's WriteMessage returned.
testWSClientClose(r, closeErr, t0, t1) ==
    LET r1 == addLog(r, LogClientCloseConnection, StepClientClose, ZeroLog, t0) IN
    IF closeErr # Nil
    THEN [wr |-> addLog(r1, LogClientCloseConnectionFailed, StepClientClose,
                        [ZeroLog EXCEPT !.Err = closeErr], t1),
          err |-> Nil]
    ELSE [wr |-> [addLog(r1, LogClientCloseConnectionSuccess, StepClientClose,
                         ZeroLog, t1)
                    EXCEPT !.CloseOK = TRUE],
          err |-> Nil]

\* The read loop going on until one message more than expected has come.
loopCondInclusive(r, t) == r.MessagesReceived <= t.ExpectMessages

\* The read loop stopping one message short of the expected count.
loopCondShort(r, t) == r.MessagesReceived + 1 < t.ExpectMessages

\* The read loop treating expect_messages = 0 as 1.
loopCondAtLeastOne(r, t) ==
    r.MessagesReceived < (IF t.ExpectMessages = 0 THEN 1 ELSE t.ExpectMessages)

\* testWS, line 325: the condition of the read loop.
loopCond(r, t) == r.MessagesReceived < t.ExpectMessages

\* The step's error handed on to the caller of testWS.
stepErrorRaised(e) == e

\* What testWS returns when handleWrite or handleRead handed it the error e
\* (lines 320-321, 326-327, 332-337): the error is dropped.
stepError(e) == Nil

\* The deferred c.Close() left out.
runDeferredNever(c, d) == c

\* The deferred c.Close() (line 231), run when testWS returns.
runDeferred(c, d) ==
    IF d THEN [state |-> "closed", closes |-> c.closes + 1] ELSE c

(***************************** the environment *****************************)
Names == {"", "t1"}
URLs == {"ws://up", "ws://unreachable"}
SendTexts == {"", "ping"}
CloseCodes == {1000, 1011}
Frames == {[type |-> TextMessage, body |-> "hi"],
           [type |-> BinaryMessage, body |-> "yo"]}

BoundedSeq(S, n) == UNION {[1..k -> S] : k \in 0..n}

Tests ==
    [Name : Names, URL : URLs, ExpectServerClose : {0} \cup CloseCodes,
     ExpectMessages : -1..MaxExpect, SendTextMessage : SendTexts,
     MaxDuration : {0, 1}]

\* The peers: one per reachable URL; nobody answers behind an unreachable one.
Peers == [frames : BoundedSeq(Frames, MaxPeerFrames), close : {0, 1000}]
NoPeer == [frames |-> <<>>, close |-> 0]

\* dialer.Dial: nil exactly when the URL can be reached.
dial(url) == IF url = "ws://up" THEN Nil ELSE "dial failed"

\* What the peer's script makes the next ReadMessage return: its next frame,
\* else its close frame, else (a silent peer) the deadline passes.
scripted(p) ==
    IF p.frames # <<>> THEN [o |-> NoError, frame |-> Head(p.frames)]
    ELSE IF p.close # 0 THEN [o |-> CloseError(p.close), frame |-> NoFrame]
    ELSE [o |-> NetTimeout, frame |-> NoFrame]

\* The returns of ReadMessage: the scripted one, or a transport fault.
ReadReturns(p) ==
    {scripted(p)} \cup {[o |-> f, frame |-> NoFrame] : f \in {NetTimeout, NetReset, OtherError}}

\* The returns of WriteMessage for the text frame.
WriteReturns == {NoError, NetTimeout, NetReset, OtherError} \cup {CloseError(c) : c \in CloseCodes}

\* The peer once ReadMessage returned x.
consumed(p, x) ==
    IF x.o.type = "none" THEN [p EXCEPT !.frames = Tail(p.frames)] ELSE p

Ticks(t) == {d \in 0..1 : t + d <= MaxClock}

\* The driver and the duration values while a single run or the evaluator is
\* looked at on its own.
NoDriver == [mainpc |-> "none"]
NoDuration == [at |-> "none"]

(******************************* the run ***********************************)
Init ==
    /\ wt \in Tests
    /\ script \in IF wt.URL = "ws://up" /\ wt.Name # "" THEN Peers ELSE {NoPeer}
    /\ peer = script
    /\ pc = "start"
    /\ wr = ZeroTestResult
    /\ err = Nil
    /\ now = 0
    /\ conn = [state |-> "none", closes |-> 0]
    /\ deferred = FALSE
    /\ lateIO = FALSE
    /\ faults = FALSE
    /\ verdict = "none"
    /\ io = <<>>
    /\ drv = NoDriver
    /\ dur = NoDuration

\* `return r, e`: the deferred calls run, then the caller has the values.
Return(r, e) ==
    /\ wr' = r
    /\ err' = e
    /\ pc' = "returned"
    /\ conn' = runDeferred(conn, deferred)

\* A read or a write is issued on the connection.
UseConn == lateIO' = (lateIO \/ conn.state # "open")

\* testWS, lines 160-216.
Begin ==
    /\ pc = "start"
    /\ \E uuidErr \in {Nil, "uuid: no entropy"} :
         LET b == testWSBegin(wt, uuidErr, now) IN
         /\ IF b.ret THEN Return(b.wr, b.err)
            ELSE wr' = b.wr /\ err' = b.err /\ pc' = "dial" /\ conn' = conn
         /\ faults' = (faults \/ (wt.Name # "" /\ uuidErr # Nil))
    /\ UNCHANGED <<io, drv, dur, wt, script, peer, now, deferred, lateIO, verdict>>

\* testWS, lines 218-231.
Dial ==
    /\ pc = "dial"
    /\ \E d \in Ticks(now) :
         LET b == testWSDial(wr, dial(wt.URL), now + d) IN
         /\ now' = now + d
         /\ IF b.ret THEN Return(b.wr, b.err) /\ deferred' = deferred
            ELSE /\ wr' = b.wr
                 /\ err' = b.err
                 /\ pc' = "send"
                 /\ conn' = IF dial(wt.URL) = Nil
                            THEN [state |-> "open", closes |-> 0] ELSE conn
                 /\ deferred' = TRUE
    /\ UNCHANGED <<io, drv, dur, wt, script, peer, lateIO, faults, verdict>>

\* testWS, lines 319-323, nothing to send.
SendSkip ==
    /\ pc = "send"
    /\ wt.SendTextMessage = ""
    /\ pc' = "readloop"
    /\ UNCHANGED <<io, drv, dur, wt, script, peer, wr, err, now, conn, deferred, lateIO, faults, verdict>>

\* testWS, lines 319-323: handleWrite(false, StepSendText).
SendText ==
    /\ pc = "send"
    /\ wt.SendTextMessage # ""
    /\ \E d \in Ticks(now), dlErr \in {Nil, "set deadline"}, o \in WriteReturns :
         LET h == handleWrite(wr, FALSE, StepSendText, dlErr, o, now, now + d) IN
         /\ dlErr # Nil => (d = 0 /\ o = NoError)
         /\ now' = now + d
         /\ faults' = (faults \/ dlErr # Nil \/ o # NoError)
         /\ lateIO' = (lateIO \/ (dlErr = Nil /\ conn.state # "open"))
         /\ io' = IF dlErr = Nil
                  THEN Append(io, [op |-> "write", o |-> o, frame |-> NoFrame])
                  ELSE io
         /\ IF h.err # Nil THEN Return(h.wr, stepError(h.err))
            ELSE wr' = h.wr /\ pc' = "readloop" /\ UNCHANGED <<err, conn>>
    /\ UNCHANGED <<drv, dur, wt, script, peer, deferred, verdict>>

\* One call handleRead(ignoreTimeout, step) of testWS, going on at `next` when
\* it returns nil.
Read(ignoreTimeout, step, next) ==
    /\ \E d \in Ticks(now), dlErr \in {Nil, "set deadline"}, x \in ReadReturns(peer) :
         LET h == handleRead(wr, ignoreTimeout, step, dlErr, x.o, x.frame, now, now + d) IN
         /\ dlErr # Nil => (d = 0 /\ x = scripted(peer))
         /\ now' = now + d
         /\ faults' = (faults \/ dlErr # Nil \/ x # scripted(peer))
         /\ lateIO' = (lateIO \/ (dlErr = Nil /\ conn.state # "open"))
         /\ peer' = IF dlErr = Nil THEN consumed(peer, x) ELSE peer
         /\ io' = IF dlErr = Nil
                  THEN Append(io, [op |-> "read", o |-> x.o, frame |-> x.frame])
                  ELSE io
         /\ IF h.err # Nil THEN Return(h.wr, stepError(h.err))
            ELSE wr' = h.wr /\ pc' = next /\ UNCHANGED <<err, conn>>
    /\ UNCHANGED <<drv, dur, wt, script, deferred, verdict>>

\* The read loop going on after a timeout.
ReadLoopLenient ==
    /\ pc = "readloop"
    /\ loopCond(wr, wt)
    /\ Read(TRUE, StepReadMessage, "readloop")

\* testWS, lines 325-329: one iteration of the read loop.
ReadLoop ==
    /\ pc = "readloop"
    /\ loopCond(wr, wt)
    /\ Read(FALSE, StepReadMessage, "readloop")

\* testWS, line 325: the loop condition is false.
ReadLoopExit ==
    /\ pc = "readloop"
    /\ ~loopCond(wr, wt)
    /\ pc' = "closecheck"
    /\ UNCHANGED <<io, drv, dur, wt, script, peer, wr, err, now, conn, deferred, lateIO, faults, verdict>>

\* The expected-close read going on to the client close after a timeout.
ExpectedCloseLenient ==
    /\ pc = "closecheck"
    /\ wt.ExpectServerClose # 0
    /\ Read(TRUE, StepExpectedServerClose, "clientclose")

\* testWS, lines 331-334.
ExpectedClose ==
    /\ pc = "closecheck"
    /\ wt.ExpectServerClose # 0
    /\ Read(FALSE, StepExpectedServerClose, "clientclose")

\* The unexpected-close read ending the run on a timeout.
UnexpectedCloseStrict ==
    /\ pc = "closecheck"
    /\ wt.ExpectServerClose = 0
    /\ Read(FALSE, StepUnexpectedServerClose, "clientclose")

\* testWS, lines 335-339.
UnexpectedClose ==
    /\ pc = "closecheck"
    /\ wt.ExpectServerClose = 0
    /\ Read(TRUE, StepUnexpectedServerClose, "clientclose")

\* testWS, lines 341-357.
ClientClose ==
    /\ pc = "clientclose"
    /\ \E d \in Ticks(now), closeErr \in {Nil, "close failed"} :
         LET h == testWSClientClose(wr, closeErr, now, now + d) IN
         /\ now' = now + d
         /\ faults' = (faults \/ closeErr # Nil)
         /\ UseConn
         /\ Return(h.wr, h.err)
    /\ UNCHANGED <<io, drv, dur, wt, script, peer, deferred, verdict>>

Next ==
    \/ Begin
    \/ Dial
    \/ SendSkip
    \/ SendText
    \/ ReadLoop
    \/ ReadLoopExit
    \/ ExpectedClose
    \/ UnexpectedClose
    \/ ClientClose

Spec == Init /\ [][Next]_vars

(************************ the evaluator on its own *************************)
\* The results IsSuccess is applied to: any expectations, any counters and
\* flags, any log of failure and other events; event i is logged at tick i.
EvalEvents ==
    {[ZeroLog EXCEPT !.Kind = k, !.Step = StepSendText] :
       k \in writeMessageFaliures \cup {LogConnect}}
    \cup {[ZeroLog EXCEPT !.Kind = k, !.Step = st] :
            k \in readMessageFaliures,
            st \in {StepReadMessage, StepUnexpectedServerClose}}

EvalLogs ==
    UNION {{[i \in 1..k |-> [f[i] EXCEPT !.CreatedAt = i]] :
              f \in [1..k -> EvalEvents]} : k \in 0..MaxEvalLog}

EvalResults ==
    {[ZeroTestResult EXCEPT
        !.ID = "uuid",
        !.Test = [ZeroTest EXCEPT !.Name = "t1", !.ExpectServerClose = x[1],
                                  !.ExpectMessages = x[2], !.MaxDuration = x[3]],
        !.ServerCloseCode = x[4], !.MessagesReceived = x[5],
        !.ConnectOK = x[6], !.CloseOK = x[6] /\ x[4] = 0, !.Log = l] :
     x \in {0, 1000} \X {0, 1} \X {0, 1} \X {0, 1000} \X {0, 1} \X BOOLEAN,
     l \in EvalLogs}

EvalInit ==
    /\ wr \in EvalResults
    /\ wt = wr.Test
    /\ script = NoPeer
    /\ peer = NoPeer
    /\ pc = "returned"
    /\ err = Nil
    /\ now = 0
    /\ conn = [state |-> "none", closes |-> 0]
    /\ deferred = FALSE
    /\ lateIO = FALSE
    /\ faults = FALSE
    /\ verdict = "none"
    /\ io = <<>>
    /\ drv = NoDriver
    /\ dur = NoDuration

\* The caller's wr.IsSuccess() on a result returned without an error
\* (main.go, line 136); the receiver is a copy, the result stays as it is.
Evaluate ==
    /\ pc = "returned"
    /\ err = Nil
    /\ verdict = "none"
    /\ verdict' = IF IsSuccess(wr) THEN "true" ELSE "false"
    /\ UNCHANGED <<io, drv, dur, wt, script, peer, pc, wr, err, now, conn, deferred, lateIO, faults>>

EvalNext == Evaluate

SpecEval == EvalInit /\ [][EvalNext]_vars

(***************************** the outer driver ****************************)
\* main.go, lines 117-164: one goroutine per test, each running testWS in a
\* loop, and main waiting for them on a sync.WaitGroup.  A call of testWS is
\* one step here: it returns an error or a result.  Writing the result record
\* can fail when -dir is set; log.Fatal then ends the process.
NumTests == 2
MaxRuns == 2
\* With -n 0 a worker loops for ever; its runs are followed up to MaxCalls.
MaxCalls == 3

Workers == 1..NumTests

engineVars == <<wt, script, peer, pc, wr, err, now, conn, deferred, lateIO,
                faults, verdict, io>>

EngineIdle ==
    /\ wt = ZeroTest
    /\ script = NoPeer
    /\ peer = NoPeer
    /\ pc = "none"
    /\ wr = ZeroTestResult
    /\ err = Nil
    /\ now = 0
    /\ conn = [state |-> "none", closes |-> 0]
    /\ deferred = FALSE
    /\ lateIO = FALSE
    /\ faults = FALSE
    /\ verdict = "none"
    /\ io = <<>>

\* A goroutine before `go func()` started it.
NewWorker == [pc |-> "idle", n |-> 0, calls |-> 0, slept |-> 0]

DriverInit ==
    /\ EngineIdle
    /\ dur = NoDuration
    /\ \E runs \in 0..MaxRuns, outdir \in {"", "out"}, sleep \in [Workers -> {0, 5}] :
         drv = [mainpc |-> "spawn", runs |-> runs, outdir |-> outdir,
                sleep |-> sleep, spawned |-> 0, wg |-> 0, exited |-> FALSE,
                w |-> [i \in Workers |-> NewWorker]]

\* The process is alive: main has not returned and log.Fatal was not called.
Alive == drv.mainpc \in {"spawn", "wait"} /\ ~drv.exited

\* The loop's exit test made one run too late.
loopBreakLate(runs, n) == runs > 0 /\ n > runs

\* main.go, lines 127-131: `if flags.Runs > 0 { if n >= flags.Runs { break } }`.
loopBreak(runs, n) == runs > 0 /\ n >= runs

\* main.go, lines 119-122: wg.Add(1) and `go func()` for the next test.
Spawn ==
    /\ Alive
    /\ drv.mainpc = "spawn"
    /\ drv.spawned < NumTests
    /\ drv' = [drv EXCEPT !.spawned = @ + 1,
                          !.wg = @ + 1,
                          !.w[drv.spawned + 1].pc = "loop"]
    /\ UNCHANGED <<engineVars, dur>>

\* main.go, line 164: the loop over the tests is over, main calls wg.Wait().
Wait ==
    /\ Alive
    /\ drv.mainpc = "spawn"
    /\ drv.spawned = NumTests
    /\ drv' = [drv EXCEPT !.mainpc = "wait"]
    /\ UNCHANGED <<engineVars, dur>>

\* main.go, lines 164-165: wg.Wait() returns and so does main.
MainReturn ==
    /\ Alive
    /\ drv.mainpc = "wait"
    /\ drv.wg = 0
    /\ drv' = [drv EXCEPT !.mainpc = "returned"]
    /\ UNCHANGED <<engineVars, dur>>

\* main.go, lines 123, 127-131: the worker leaves its loop; wg.Done() runs.
WorkerBreak(i) ==
    /\ Alive
    /\ drv.w[i].pc = "loop"
    /\ loopBreak(drv.runs, drv.w[i].n)
    /\ drv' = [drv EXCEPT !.w[i].pc = "done", !.wg = @ - 1]
    /\ UNCHANGED <<engineVars, dur>>

\* main.go, lines 132-158: one call of testWS and the report of what it
\* returned: an error is logged; a result is evaluated, serialised and, with
\* -dir, written to a file, and a failed write ends the process (log.Fatal).
WorkerRun(i) ==
    /\ Alive
    /\ drv.w[i].pc = "loop"
    /\ ~loopBreak(drv.runs, drv.w[i].n)
    /\ drv.runs = 0 => drv.w[i].calls < MaxCalls
    /\ \E ret \in {"error", "result"}, written \in BOOLEAN :
         /\ (ret = "error" \/ drv.outdir = "") => written
         /\ drv' = [drv EXCEPT !.w[i].calls = @ + 1,
                               !.w[i].pc = IF written THEN "sleep" ELSE "fatal",
                               !.exited = ~written]
    /\ UNCHANGED <<engineVars, dur>>

\* main.go, lines 159-160: time.Sleep(wt.Sleep); n++.
WorkerSleep(i) ==
    /\ Alive
    /\ drv.w[i].pc = "sleep"
    /\ drv' = [drv EXCEPT !.w[i].slept = @ + drv.sleep[i],
                          !.w[i].n = @ + 1,
                          !.w[i].pc = "loop"]
    /\ UNCHANGED <<engineVars, dur>>

Worker(i) == WorkerBreak(i) \/ WorkerRun(i) \/ WorkerSleep(i)

DriverNext ==
    \/ Spawn
    \/ Wait
    \/ MainReturn
    \/ \E i \in Workers : WorkerBreak(i)
    \/ \E i \in Workers : WorkerRun(i)
    \/ \E i \in Workers : WorkerSleep(i)

\* Goroutines that can run do run, and every call of testWS returns.
SpecDriver ==
    /\ DriverInit
    /\ [][DriverNext]_vars
    /\ WF_vars(Spawn) /\ WF_vars(Wait) /\ WF_vars(MainReturn)
    /\ \A i \in Workers : WF_vars(Worker(i))

\* A run in which every call of the library returns: each step of testWS that
\* can be taken is taken at some time.
SpecFair == Init /\ [][Next]_vars /\ WF_vars(Next)

(************************** the duration values ****************************)
\* src/unnamed/part_000: Duration and DurationMS and their JSON forms.  A
\* duration is an int64 count of nanoseconds; it is held here as sign, whole
\* seconds and nanoseconds below a second.  Text is a sequence of characters.
\* time.Duration.String, time.ParseDuration, encoding/json and the float64
\* arithmetic are the Go library's; they are written out below as far as the
\* strings and numbers of these two types need them.
MaxMantissa == 11

Billion == 1000 * 1000 * 1000

RECURSIVE Pow10(_)
Pow10(k) == IF k = 0 THEN 1 ELSE 10 * Pow10(k - 1)

DigitChars == <<"0", "1", "2", "3", "4", "5", "6", "7", "8", "9">>
IsDigit(c) == \E i \in 1..10 : DigitChars[i] = c
DigitOf(c) == (CHOOSE i \in 1..10 : DigitChars[i] = c) - 1

\* A duration of sign neg, sec seconds and ns nanoseconds, carried into range;
\* an int64 has no negative zero.
Dur(neg, sec, ns) ==
    LET s2 == sec + (ns \div Billion)
        n2 == ns % Billion
    IN  [neg |-> neg /\ (s2 # 0 \/ n2 # 0), sec |-> s2, ns |-> n2]

ZeroDuration == Dur(FALSE, 0, 0)

\* |a - b| <= tol nanoseconds, for tol below a second.
Within(a, b, tol) ==
    IF a.neg = b.neg
    THEN /\ a.sec - b.sec \in {-1, 0, 1}
         /\ (a.sec - b.sec) * Billion + (a.ns - b.ns) \in (0 - tol)..tol
    ELSE a.sec = 0 /\ b.sec = 0 /\ a.ns + b.ns <= tol

\* time: fmtInt, the decimal digits of v.
RECURSIVE fmtInt(_)
fmtInt(v) ==
    IF v < 10 THEN <<DigitChars[v + 1]>>
    ELSE fmtInt(v \div 10) \o <<DigitChars[(v % 10) + 1]>>

\* time: fmtFrac, the last prec digits of v without their trailing zeros,
\* after a "." when a digit is left.
RECURSIVE fracDigits(_, _, _)
fracDigits(v, prec, print) ==
    IF prec = 0 THEN <<>>
    ELSE LET p == print \/ (v % 10) # 0 IN
         fracDigits(v \div 10, prec - 1, p)
           \o (IF p THEN <<DigitChars[(v % 10) + 1]>> ELSE <<>>)

fmtFrac(v, prec) ==
    LET ds == fracDigits(v, prec, FALSE) IN
    IF ds = <<>> THEN <<>> ELSE <<".">> \o ds

\* time.Duration.String
DurationString(d) ==
    LET body ==
          IF d.sec = 0
          THEN IF d.ns = 0 THEN <<"0", "s">>
               ELSE IF d.ns < 1000
                    THEN fmtInt(d.ns) \o <<"n", "s">>
               ELSE IF d.ns < 1000 * 1000
                    THEN fmtInt(d.ns \div 1000) \o fmtFrac(d.ns, 3) \o <<"µ", "s">>
               ELSE fmtInt(d.ns \div (1000 * 1000)) \o fmtFrac(d.ns, 6) \o <<"m", "s">>
          ELSE LET secs == fmtInt(d.sec % 60) \o fmtFrac(d.ns, 9) \o <<"s">>
                   m == d.sec \div 60
                   h == m \div 60
               IN  IF m = 0 THEN secs
                   ELSE IF h = 0 THEN fmtInt(m % 60) \o <<"m">> \o secs
                   ELSE fmtInt(h) \o <<"h">> \o fmtInt(m % 60) \o <<"m">> \o secs
    IN  IF d.neg THEN <<"-">> \o body ELSE body

\* time: leadingInt, the leading digits of s as a number, and the rest.
RECURSIVE leadingInt(_, _, _)
leadingInt(s, v, n) ==
    IF s # <<>> /\ IsDigit(Head(s))
    THEN leadingInt(Tail(s), v * 10 + DigitOf(Head(s)), n + 1)
    ELSE [v |-> v, n |-> n, rest |-> s]

\* The unit at the head of s: the characters up to the next digit or ".".
RECURSIVE unitLength(_)
unitLength(s) ==
    IF s = <<>> \/ IsDigit(Head(s)) \/ Head(s) = "." THEN 0
    ELSE 1 + unitLength(Tail(s))

\* time: unitMap, in nanoseconds for the units below a second and in seconds
\* for the others.
unitMap(u) ==
    CASE u = <<"n", "s">> -> [ok |-> TRUE, ns |-> 1, sec |-> 0]
      [] u = <<"u", "s">> -> [ok |-> TRUE, ns |-> 1000, sec |-> 0]
      [] u = <<"µ", "s">> -> [ok |-> TRUE, ns |-> 1000, sec |-> 0]
      [] u = <<"μ", "s">> -> [ok |-> TRUE, ns |-> 1000, sec |-> 0]
      [] u = <<"m", "s">> -> [ok |-> TRUE, ns |-> 1000 * 1000, sec |-> 0]
      [] u = <<"s">> -> [ok |-> TRUE, ns |-> Billion, sec |-> 1]
      [] u = <<"m">> -> [ok |-> TRUE, ns |-> 0, sec |-> 60]
      [] u = <<"h">> -> [ok |-> TRUE, ns |-> 0, sec |-> 3600]
      [] OTHER -> [ok |-> FALSE, ns |-> 0, sec |-> 0]

\* v units and the fraction f / 10^k of a unit, as a duration.  String writes
\* a fraction only on the units up to the second.
unitValue(v, f, k, unit) ==
    LET scale == unit.ns \div Billion
        whole == IF unit.sec > 0 THEN Dur(FALSE, v * unit.sec, 0)
                 ELSE LET per == Billion \div unit.ns IN
                      Dur(FALSE, v \div per, (v % per) * unit.ns)
        part == IF f = 0 THEN 0
                ELSE IF unit.ns = 0 THEN 0
                ELSE IF Pow10(k) <= unit.ns THEN f * (unit.ns \div Pow10(k))
                ELSE f \div (Pow10(k) \div unit.ns)
    IN  Dur(FALSE, whole.sec, whole.ns + part)

\* time.ParseDuration after the sign: ([0-9]*(\.[0-9]*)?[a-z]+)+, summed up.
RECURSIVE parseUnits(_, _)
parseUnits(s, acc) ==
    IF s = <<>> THEN [err |-> Nil, d |-> acc]
    ELSE LET i == leadingInt(s, 0, 0)
             dot == i.rest # <<>> /\ Head(i.rest) = "."
             f == IF dot THEN leadingInt(Tail(i.rest), 0, 0)
                  ELSE [v |-> 0, n |-> 0, rest |-> i.rest]
             ul == unitLength(f.rest)
             unit == unitMap(SubSeq(f.rest, 1, ul))
         IN  IF i.n = 0 /\ f.n = 0 THEN [err |-> "invalid duration", d |-> acc]
             ELSE IF ul = 0 THEN [err |-> "missing unit", d |-> acc]
             ELSE IF ~unit.ok THEN [err |-> "unknown unit", d |-> acc]
             ELSE IF unit.ns = 0 /\ f.v # 0
                  THEN [err |-> "fraction of minutes or hours", d |-> acc]
             ELSE LET x == unitValue(i.v, f.v, f.n, unit) IN
                  parseUnits(SubSeq(f.rest, ul + 1, Len(f.rest)),
                             Dur(FALSE, acc.sec + x.sec, acc.ns + x.ns))

\* time.ParseDuration
ParseDuration(s) ==
    LET neg == s # <<>> /\ Head(s) = "-"
        t == IF s # <<>> /\ Head(s) \in {"-", "+"} THEN Tail(s) ELSE s
    IN  IF t = <<"0">> THEN [err |-> Nil, d |-> ZeroDuration]
        ELSE IF t = <<>> THEN [err |-> "invalid duration", d |-> ZeroDuration]
        ELSE LET r == parseUnits(t, ZeroDuration) IN
             [err |-> r.err,
              d |-> IF r.err = Nil THEN Dur(neg, r.d.sec, r.d.ns) ELSE ZeroDuration]

\* encoding/json: a string without characters to escape, and back.
jsonString(s) == <<"\"">> \o s \o <<"\"">>
IsJsonString(b) == Len(b) >= 2 /\ Head(b) = "\"" /\ b[Len(b)] = "\""
jsonUnquote(b) == SubSeq(b, 2, Len(b) - 1)

\* encoding/json: the float64 that is h hundredths, written with the fewest
\* digits that give it back.
jsonNumber(neg, h) ==
    (IF neg THEN <<"-">> ELSE <<>>) \o fmtInt(h \div 100) \o fmtFrac(h, 2)

\* encoding/json: a number read as hundredths; digits after the second
\* decimal place are cut off.
jsonParseNumber(b) ==
    LET neg == b # <<>> /\ Head(b) = "-"
        t == IF neg THEN Tail(b) ELSE b
        i == leadingInt(t, 0, 0)
        dot == i.rest # <<>> /\ Head(i.rest) = "."
        f == IF dot THEN leadingInt(Tail(i.rest), 0, 0)
             ELSE [v |-> 0, n |-> 0, rest |-> i.rest]
        frac == IF f.n <= 2 THEN f.v * Pow10(2 - f.n) ELSE f.v \div Pow10(f.n - 2)
    IN  [ok |-> i.n > 0 /\ f.rest = <<>> /\ (dot => f.n > 0),
         neg |-> neg, h |-> i.v * 100 + frac]

\* Duration.MarshalJSON
DurationMarshalJSON(d) == jsonString(DurationString(d))

\* Duration.UnmarshalJSON: a string is parsed, a number is nanoseconds.
DurationUnmarshalJSON(b) ==
    IF IsJsonString(b) THEN ParseDuration(jsonUnquote(b))
    ELSE LET x == jsonParseNumber(b) IN
         IF x.ok THEN [err |-> Nil, d |-> Dur(x.neg, 0, x.h \div 100)]
         ELSE [err |-> "invalid duration", d |-> ZeroDuration]

\* DurationMS.MarshalJSON that rounds the milliseconds to one decimal.
DurationMSMarshalJSONCoarse(d, tieUp) ==
    LET r == d.ns % 100000
        up == r > 50000 \/ (r = 50000 /\ tieUp)
        t == d.sec * 10000 + (d.ns \div 100000) + (IF up THEN 1 ELSE 0)
    IN  jsonNumber(d.neg, t * 10)

\* DurationMS.MarshalJSON: math.Round(float64(d)/1e6*100)/100 as a number.
\* math.Round rounds half away from zero; the float64 product of an exact
\* half may fall on either side of it (tieUp).
DurationMSMarshalJSON(d, tieUp) ==
    LET r == d.ns % 10000
        up == r > 5000 \/ (r = 5000 /\ tieUp)
        h == d.sec * 100000 + (d.ns \div 10000) + (IF up THEN 1 ELSE 0)
    IN  jsonNumber(d.neg, h)

\* DurationMS.UnmarshalJSON: the number (or the numeric string) times 1e6,
\* cut to an int64.  The float64 product of h/100 and 1e6 is the whole number
\* h * 10^4 or the float64 just below it, which is cut to one less (ulp = 1).
DurationMSUnmarshalJSON(b, ulp) ==
    LET x == jsonParseNumber(IF IsJsonString(b) THEN jsonUnquote(b) ELSE b) IN
    IF ~x.ok THEN [err |-> "invalid duration", d |-> ZeroDuration]
    ELSE IF x.h = 0 THEN [err |-> Nil, d |-> ZeroDuration]
    ELSE LET sec == x.h \div 100000
             ns == (x.h % 100000) * 10000
         IN  [err |-> Nil,
              d |-> IF ns >= ulp THEN Dur(x.neg, sec, ns - ulp)
                    ELSE Dur(x.neg, sec - 1, ns + Billion - ulp)]

\* The durations looked at: the seconds, minutes and hours around their
\* carries, and below the second every m * 10^j and every 10^j - m.
SecondsLookedAt == {0, 1, 59, 60, 61, 3599, 3600, 3661, 7325}
NanosLookedAt ==
    {n \in {m * Pow10(j) : m \in 0..MaxMantissa, j \in 0..8}
           \cup {Pow10(j) - m : m \in 1..MaxMantissa, j \in 2..9}
           \cup {5000 + 10000 * m : m \in 0..MaxMantissa}
           \cup {123456789, 987654321, 4999, 5001} :
       n >= 0 /\ n < Billion}
Durations ==
    {Dur(neg, sec, ns) : neg \in BOOLEAN, sec \in SecondsLookedAt, ns \in NanosLookedAt}

DurationInit ==
    /\ EngineIdle
    /\ drv = NoDriver
    /\ \E kind \in {"Duration", "DurationMS"}, d \in Durations :
         dur = [at |-> "value", kind |-> kind, d |-> d, text |-> <<>>,
                err |-> Nil, back |-> ZeroDuration]

\* json.Marshal of a Duration.
MarshalDuration ==
    /\ dur.at = "value"
    /\ dur.kind = "Duration"
    /\ dur' = [dur EXCEPT !.at = "encoded", !.text = DurationMarshalJSON(dur.d)]
    /\ UNCHANGED <<engineVars, drv>>

\* json.Unmarshal into a Duration.
UnmarshalDuration ==
    /\ dur.at = "encoded"
    /\ dur.kind = "Duration"
    /\ LET r == DurationUnmarshalJSON(dur.text) IN
       dur' = [dur EXCEPT !.at = "decoded", !.err = r.err, !.back = r.d]
    /\ UNCHANGED <<engineVars, drv>>

\* json.Marshal of a DurationMS.
MarshalDurationMS ==
    /\ dur.at = "value"
    /\ dur.kind = "DurationMS"
    /\ \E tieUp \in BOOLEAN :
         dur' = [dur EXCEPT !.at = "encoded",
                            !.text = DurationMSMarshalJSON(dur.d, tieUp)]
    /\ UNCHANGED <<engineVars, drv>>

\* json.Unmarshal into a DurationMS.
UnmarshalDurationMS ==
    /\ dur.at = "encoded"
    /\ dur.kind = "DurationMS"
    /\ \E ulp \in {0, 1} :
         LET r == DurationMSUnmarshalJSON(dur.text, ulp) IN
         dur' = [dur EXCEPT !.at = "decoded", !.err = r.err, !.back = r.d]
    /\ UNCHANGED <<engineVars, drv>>

DurationNext ==
    \/ MarshalDuration
    \/ UnmarshalDuration
    \/ MarshalDurationMS
    \/ UnmarshalDurationMS

SpecDuration == DurationInit /\ [][DurationNext]_vars

(******************************* the claims ********************************)
Last(log) == log[Len(log)]
Kinds(log) == [i \in 1..Len(log) |-> log[i].Kind]
IsPrefix(a, b) == Len(a) <= Len(b) /\ SubSeq(b, 1, Len(a)) = a
Returned == pc = "returned"
\* testWS ran past the name check and the identifier and returned a result.
Completed == Returned /\ wr.ID # ""
LastKind(k) == Len(wr.Log) > 0 /\ Last(wr.Log).Kind = k
DeadlineFailed ==
    \E i \in 1..Len(wr.Log) :
      wr.Log[i].Kind \in {LogSetReadDeadlineFailed, LogSetWriteDeadlineFailed}

\* C1: a run of a Test whose name is empty returns an error and the zero
\* result: no identifier, no event, no message, and no connection was opened,
\* whatever the other fields of the Test are.
C1_EmptyNameFails ==
    (Returned /\ wt.Name = "") =>
        /\ err # Nil
        /\ wr = ZeroTestResult
        /\ conn = [state |-> "none", closes |-> 0]
        /\ ~lateIO

C1_Witness ==
    /\ Returned
    /\ wt.Name = ""
    /\ wt.URL = "ws://up"
    /\ wt.SendTextMessage # ""
    /\ wt.ExpectMessages = MaxExpect
    /\ err # Nil

\* C2: a run with a name and an identifier returns a nil error whatever connect,
\* send, the reads and the client close came to (failure, timeout, network
\* error, other error, peer close): those outcomes are in the log only.
C2_OutcomesNotRaised ==
    (Completed /\ ~DeadlineFailed) => err = Nil

C2_Witness ==
    /\ Completed
    /\ LastKind(LogReadMessageNetError)
    /\ \E i \in 1..Len(wr.Log) : wr.Log[i].Kind = LogWriteMessageSuccess
    /\ err = Nil

\* C3: when setting the read or the write deadline fails, testWS returns a
\* non-nil error together with the result built so far, whose log ends with the
\* deadline-set failure event.
C3_DeadlineFailureRaised ==
    (Returned /\ (LastKind(LogSetReadDeadlineFailed)
                  \/ LastKind(LogSetWriteDeadlineFailed))) => err # Nil

\* C4: the log of a completed run has at least one event, its first event is
\* connect, its timestamps never decrease along the log; and a step of the run
\* only appends to the log, the events already there stay as they are.
C4_LogShape ==
    Completed =>
        /\ Len(wr.Log) >= 1
        /\ wr.Log[1].Kind = LogConnect
        /\ \A i, j \in 1..Len(wr.Log) :
             i <= j => wr.Log[i].CreatedAt <= wr.Log[j].CreatedAt

C4_LogAppendOnly ==
    [](C4_LogShape) /\ [][IsPrefix(wr.Log, wr'.Log)]_vars

C4_Witness ==
    /\ Completed
    /\ Len(wr.Log) >= 8
    /\ wr.Log[1].CreatedAt < wr.Log[4].CreatedAt
    /\ wr.Log[4].CreatedAt < Last(wr.Log).CreatedAt

\* C5: a returned result with connect_ok = false has close_ok = false,
\* messages_received = 0, server_close_code = 0 and no stored message.
C5_NotConnected ==
    (Returned /\ ~wr.ConnectOK) =>
        /\ ~wr.CloseOK
        /\ wr.MessagesReceived = 0
        /\ wr.ServerCloseCode = 0
        /\ wr.Messages = <<>>

C5_Witness ==
    /\ Returned
    /\ LastKind(LogConnectFail)
    /\ ~wr.ConnectOK
    /\ wt.ExpectMessages > 0
    /\ wt.ExpectServerClose = 0

\* The verdict as the claim C6 states it.
C6_Conditions(r) ==
    /\ r.Test.ExpectServerClose = 0 \/ r.ServerCloseCode = r.Test.ExpectServerClose
    /\ r.Test.ExpectMessages = 0 \/ r.MessagesReceived = r.Test.ExpectMessages
    /\ \/ r.Test.MaxDuration = 0
       \/ (r.Log # <<>> /\ Last(r.Log).CreatedAt <= r.Test.MaxDuration)
    /\ ~ \E i \in 1..Len(r.Log) : r.Log[i].Kind \in writeMessageFaliures
    /\ ~ \E i \in 1..Len(r.Log) :
           r.Log[i].Kind \in readMessageFaliures /\ r.Log[i].Step = StepReadMessage

\* C6: IsSuccess returns true exactly when the close code, the message count
\* and the duration meet the expectations that are set and the log has no
\* write failure and no read failure of step read_message; connect_ok and
\* close_ok play no part; and the call leaves the result as it was.
C6_IsSuccessIff ==
    /\ [](verdict # "none" => ((verdict = "true") <=> C6_Conditions(wr)))
    /\ [][wr' = wr]_vars

C6_Witness ==
    /\ verdict = "true"
    /\ ~wr.ConnectOK
    /\ wr.Test.ExpectMessages # 0
    /\ wr.Test.MaxDuration # 0
    /\ \E i \in 1..Len(wr.Log) : wr.Log[i].Kind \in readMessageFaliures

\* C7: a connection that was opened is closed exactly once when the run
\* returns, whichever way the run ends, and never before; no read or write is
\* issued on a connection that is not open; a failed connect closes nothing.
C7_ClosedOnce ==
    /\ ~lateIO
    /\ ~Returned => conn.closes = 0
    /\ (Returned /\ wr.ConnectOK) => conn = [state |-> "closed", closes |-> 1]
    /\ (Returned /\ ~wr.ConnectOK) => conn = [state |-> "none", closes |-> 0]

C7_Witness ==
    /\ Returned
    /\ LastKind(LogSetReadDeadlineFailed)
    /\ wr.MessagesReceived = 1
    /\ conn = [state |-> "closed", closes |-> 1]

\* The run C8 is about: no fault, no text to send, no max_duration, a peer that
\* sends n >= 1 frames and closes with a code c # 0, and a Test that expects
\* exactly that.
C8_Case ==
    /\ Completed
    /\ ~faults
    /\ wt.URL = "ws://up"
    /\ wt.SendTextMessage = ""
    /\ wt.MaxDuration = 0
    /\ Len(script.frames) >= 1
    /\ script.close # 0
    /\ wt.ExpectMessages = Len(script.frames)
    /\ wt.ExpectServerClose = script.close

\* C8: such a run returns connect_ok, messages_received = n, the n messages in
\* arrival order with their types and bodies, server_close_code = c, and
\* IsSuccess() = true.
C8_ExpectedScenario ==
    C8_Case =>
        /\ wr.ConnectOK
        /\ wr.MessagesReceived = Len(script.frames)
        /\ Len(wr.Messages) = Len(script.frames)
        /\ \A i \in 1..Len(script.frames) :
             /\ wr.Messages[i].Type = script.frames[i].type
             /\ wr.Messages[i].Body[2] = script.frames[i].body
        /\ wr.ServerCloseCode = script.close
        /\ IsSuccess(wr)

C8_Witness ==
    /\ C8_Case
    /\ Len(script.frames) = 2
    /\ script.frames[1].body = "hi"
    /\ script.frames[2].body = "yo"
    /\ script.close = 1000

\* The run C9 is about: no fault, a peer that sends one frame and closes with
\* 1000, a Test that expects two messages.
C9_Case ==
    /\ Completed
    /\ ~faults
    /\ wt.URL = "ws://up"
    /\ Len(script.frames) = 1
    /\ script.close = 1000
    /\ wt.ExpectMessages = 2

\* C9 as claimed: such a run ends on a read timeout of the second read, with
\* messages_received = 1 and IsSuccess() = false.
C9_SecondReadTimesOut ==
    C9_Case =>
        /\ LastKind(LogReadMessageTimeout)
        /\ Last(wr.Log).Step = StepReadMessage
        /\ wr.MessagesReceived = 1
        /\ ~IsSuccess(wr)

\* C9, amended: the second read of such a run returns the peer's close frame;
\* the run logs server_closed_connection for it under step read_message, logs
\* no read timeout, stores server_close_code = 1000 and returns, with
\* messages_received = 1 and IsSuccess() = false.
C9_SecondReadSeesClose ==
    C9_Case =>
        /\ LastKind(LogServerClosedConnection)
        /\ Last(wr.Log).Step = StepReadMessage
        /\ ~ \E i \in 1..Len(wr.Log) : wr.Log[i].Kind = LogReadMessageTimeout
        /\ wr.ServerCloseCode = 1000
        /\ wr.MessagesReceived = 1
        /\ ~IsSuccess(wr)

C9_Witness ==
    /\ C9_Case
    /\ wt.ExpectServerClose = 1000
    /\ wt.SendTextMessage = ""
    /\ script.frames[1].body = "hi"
    /\ wr.MessagesReceived = 1

\* C10: when the connection attempt fails the result has connect_ok = false and
\* the log is connect, connect_fail and nothing else: nothing was sent, read or
\* closed; IsSuccess() is true when no expectation is set and false when a
\* close code or a message count is expected.
C10_ConnectFailure ==
    (Completed /\ wt.URL = "ws://unreachable") =>
        /\ err = Nil
        /\ ~wr.ConnectOK
        /\ Kinds(wr.Log) = <<LogConnect, LogConnectFail>>
        /\ wr.Messages = <<>>
        /\ conn = [state |-> "none", closes |-> 0]
        /\ ~lateIO
        /\ (wt.ExpectServerClose = 0 /\ wt.ExpectMessages = 0 /\ wt.MaxDuration = 0)
             => IsSuccess(wr)
        /\ (wt.ExpectServerClose # 0 \/ wt.ExpectMessages # 0) => ~IsSuccess(wr)

C10_Witness ==
    /\ Completed
    /\ wt.URL = "ws://unreachable"
    /\ wt.SendTextMessage # ""
    /\ wt.ExpectServerClose = 0
    /\ wt.ExpectMessages = 0
    /\ wt.MaxDuration = 0
    /\ IsSuccess(wr)

\* The events of the log that start a read under step st.
ReadAttempts(log, st) ==
    {i \in 1..Len(log) : log[i].Kind = LogReadMessage /\ log[i].Step = st}
CloseCheckSteps == {StepExpectedServerClose, StepUnexpectedServerClose}
\* The run went past the read loop: a close-check read or its deadline failure
\* is in the log.
PastReadLoop ==
    \E i \in 1..Len(wr.Log) : wr.Log[i].Step \in CloseCheckSteps

\* C11 as claimed: with expect_messages = 0, a run that gets to the close check
\* has made exactly one read attempt of step read_message before it.
C11_ZeroReadsOne ==
    (Completed /\ wt.ExpectMessages = 0 /\ PastReadLoop) =>
        Cardinality(ReadAttempts(wr.Log, StepReadMessage)) = 1

\* C11, amended: with expect_messages = 0 the read loop makes no read at all:
\* no event of the log is tagged read_message and no message is received
\* before the close check; the only read of the run is the close-check read.
C11_ZeroReadsNone ==
    (wt.ExpectMessages = 0 /\ wr.ID # "") =>
        /\ \A i \in 1..Len(wr.Log) : wr.Log[i].Step # StepReadMessage
        /\ Cardinality({i \in 1..Len(wr.Log) : wr.Log[i].Kind = LogReadMessage}) <= 1
        /\ (Returned /\ PastReadLoop /\ ~DeadlineFailed) =>
             /\ Cardinality({i \in 1..Len(wr.Log) : wr.Log[i].Kind = LogReadMessage}) = 1
             /\ \A i \in 1..Len(wr.Log) :
                  wr.Log[i].Kind = LogReadMessage => wr.Log[i].Step \in CloseCheckSteps

C11_Witness ==
    /\ Completed
    /\ wt.ExpectMessages = 0
    /\ PastReadLoop
    /\ ~faults
    /\ Len(script.frames) = 2
    /\ wr.CloseOK

\* The process has ended: main returned or log.Fatal ended it.
Ended == drv.mainpc = "returned" \/ drv.exited

C12_DriverShape ==
    /\ \A i \in Workers :
         /\ drv.w[i].pc = "done" =>
              drv.runs > 0 /\ drv.w[i].calls = drv.runs /\ drv.w[i].n = drv.runs
         /\ drv.runs > 0 => drv.w[i].calls <= drv.runs
         /\ drv.w[i].calls = drv.w[i].n + (IF drv.w[i].pc \in {"sleep", "fatal"} THEN 1 ELSE 0)
         /\ drv.w[i].slept = drv.w[i].n * drv.sleep[i]
    /\ drv.mainpc = "returned" => \A i \in Workers : drv.w[i].pc = "done"
    /\ drv.runs = 0 =>
         drv.mainpc # "returned" /\ \A i \in Workers : drv.w[i].pc # "done"
    /\ drv.exited =>
         /\ drv.outdir # ""
         /\ drv.mainpc # "returned"
         /\ \E i \in Workers : drv.w[i].pc = "fatal"

C13_RoundTrip ==
    dur.at = "decoded" =>
        /\ dur.err = Nil
        /\ dur.kind = "Duration" => dur.back = dur.d
        /\ dur.kind = "DurationMS" => Within(dur.back, dur.d, 10000)

C13_Witness ==
    /\ dur.at = "decoded"
    /\ dur.kind = "DurationMS"
    /\ dur.d.neg
    /\ dur.d.sec = 3661
    /\ dur.d.ns % 10000 = 5000
    /\ dur.back # dur.d

\* Some event of the log has kind k.
HasKind(k) == \E i \in 1..Len(wr.Log) : wr.Log[i].Kind = k
\* The kinds that end a read with an error, the peer's close among them.
ReadErrorKinds ==
    {LogServerClosedConnection, LogReadMessageTimeout, LogReadMessageNetError,
     LogReadMessageError}
\* The event after event i is the first event of the client-close step, or
\* the run is about to log it.
GoesOnToClientClose(i) ==
    \/ i + 1 = Len(wr.Log) /\ pc = "clientclose"
    \/ /\ i + 2 <= Len(wr.Log)
       /\ wr.Log[i + 2].Kind = LogClientCloseConnection
\* Event i + 1 is the last one of a run that returned without a client close.
EndsRunAfter(i) ==
    /\ Returned
    /\ i + 1 = Len(wr.Log)
    /\ ~HasKind(LogClientCloseConnection)
    /\ ~wr.CloseOK

\* C14 as claimed: when the read tagged expected_server_close ends in anything
\* but a peer close, a received message included, the run ends there: no
\* client_close_connection event and close_ok false.
C14_MessageEndsRun ==
    \A i \in ReadAttempts(wr.Log, StepExpectedServerClose) :
      (i < Len(wr.Log) /\ wr.Log[i + 1].Kind # LogServerClosedConnection) =>
          /\ ~HasKind(LogClientCloseConnection)
          /\ ~wr.CloseOK

\* C14, amended: with expect_server_close # 0 the close check is one read
\* tagged expected_server_close.  A peer close, a timeout, a network error or a
\* generic error of that read ends the run: no client_close_connection event,
\* close_ok false.  A received message does not end the run: it goes on to the
\* client-close step.
C14_ExpectedCloseRead ==
    /\ Cardinality(ReadAttempts(wr.Log, StepExpectedServerClose)) <= 1
    /\ wt.ExpectServerClose # 0 =>
         ReadAttempts(wr.Log, StepUnexpectedServerClose) = {}
    /\ \A i \in ReadAttempts(wr.Log, StepExpectedServerClose) :
         /\ wt.ExpectServerClose # 0
         /\ i < Len(wr.Log)
         /\ wr.Log[i + 1].Step = StepExpectedServerClose
         /\ wr.Log[i + 1].Kind \in ReadErrorKinds \cup {LogReadMessageSuccess}
         /\ wr.Log[i + 1].Kind \in ReadErrorKinds => EndsRunAfter(i)
         /\ wr.Log[i + 1].Kind = LogReadMessageSuccess => GoesOnToClientClose(i)

C14_Witness ==
    /\ Returned
    /\ wt.ExpectServerClose # 0
    /\ \E i \in ReadAttempts(wr.Log, StepExpectedServerClose) :
         wr.Log[i + 1].Kind = LogReadMessageSuccess
    /\ wr.CloseOK

\* C15: with expect_server_close = 0 the close check is one read tagged
\* unexpected_server_close.  A timeout of that read is logged as
\* read_message_timeout and the run goes on to the client-close step; a
\* network error, a generic error or a peer close of that read ends the run
\* without a client-close step.
C15_UnexpectedCloseRead ==
    /\ Cardinality(ReadAttempts(wr.Log, StepUnexpectedServerClose)) <= 1
    /\ wt.ExpectServerClose = 0 =>
         ReadAttempts(wr.Log, StepExpectedServerClose) = {}
    /\ \A i \in ReadAttempts(wr.Log, StepUnexpectedServerClose) :
         /\ wt.ExpectServerClose = 0
         /\ i < Len(wr.Log)
         /\ wr.Log[i + 1].Step = StepUnexpectedServerClose
         /\ wr.Log[i + 1].Kind = LogReadMessageTimeout => GoesOnToClientClose(i)
         /\ wr.Log[i + 1].Kind \in
              {LogReadMessageNetError, LogReadMessageError, LogServerClosedConnection}
              => EndsRunAfter(i)

C15_Witness ==
    /\ Returned
    /\ wt.ExpectServerClose = 0
    /\ \E i \in ReadAttempts(wr.Log, StepUnexpectedServerClose) :
         wr.Log[i + 1].Kind = LogReadMessageTimeout
    /\ HasKind(LogClientCloseConnectionSuccess)
    /\ wr.MessagesReceived > 0

\* C16: the client-close step runs only if no peer close was seen before; it
\* logs client_close_connection and directly after it exactly one of
\* client_close_connection_success and client_close_connection_failed, which
\* ends the log.  In every returned result close_ok is true exactly when the
\* last event is client_close_connection_success, and close_ok implies
\* connect_ok and server_close_code = 0.
C16_ClientClose ==
    /\ HasKind(LogClientCloseConnection) =>
         /\ ~HasKind(LogServerClosedConnection)
         /\ wr.ServerCloseCode = 0
    /\ \A i \in 1..Len(wr.Log) :
         /\ wr.Log[i].Kind = LogClientCloseConnection =>
              /\ i + 1 = Len(wr.Log)
              /\ wr.Log[i + 1].Kind \in
                   {LogClientCloseConnectionSuccess, LogClientCloseConnectionFailed}
              /\ Returned
         /\ wr.Log[i].Kind \in
              {LogClientCloseConnectionSuccess, LogClientCloseConnectionFailed} =>
              /\ i > 1
              /\ wr.Log[i - 1].Kind = LogClientCloseConnection
    /\ Returned => (wr.CloseOK <=> LastKind(LogClientCloseConnectionSuccess))
    /\ wr.CloseOK => (Returned /\ wr.ConnectOK /\ wr.ServerCloseCode = 0)

C16_Witness ==
    /\ Returned
    /\ LastKind(LogClientCloseConnectionFailed)
    /\ ~wr.CloseOK
    /\ wr.ConnectOK
    /\ wr.MessagesReceived = wt.ExpectMessages

\* The kinds that end a run wherever they are logged.
TerminalKinds ==
    {LogConnectFail, LogWriteMessageTimeout, LogWriteMessageNetError,
     LogWriteMessageError, LogReadMessageNetError, LogReadMessageError,
     LogServerClosedConnection, LogSetReadDeadlineFailed,
     LogSetWriteDeadlineFailed, LogClientCloseConnectionFailed}
IsTerminal(l) ==
    \/ l.Kind \in TerminalKinds
    \/ l.Kind = LogReadMessageTimeout /\ l.Step # StepUnexpectedServerClose

\* C17: a failure event (connect_fail, a write failure, read_message_net_error,
\* read_message_error, server_closed_connection, a deadline failure,
\* client_close_connection_failed, or a read_message_timeout of a step other
\* than unexpected_server_close) is the last event of the log and the run has
\* returned; after a peer close server_close_code is the code the peer sent,
\* and it is zero in every other result.
C17_FailuresTerminal ==
    /\ \A i \in 1..Len(wr.Log) :
         IsTerminal(wr.Log[i]) => (i = Len(wr.Log) /\ Returned)
    /\ HasKind(LogServerClosedConnection) =>
         /\ io # <<>>
         /\ Last(io).o.type = "CloseError"
         /\ wr.ServerCloseCode = Last(io).o.code
         /\ wr.ServerCloseCode \in CloseCodes
    /\ ~HasKind(LogServerClosedConnection) => wr.ServerCloseCode = 0

C17_Witness ==
    /\ Returned
    /\ LastKind(LogServerClosedConnection)
    /\ Last(wr.Log).Step = StepReadMessage
    /\ wr.ServerCloseCode = script.close
    /\ wr.MessagesReceived > 0

\* The phase an event belongs to: 1 connect, 2 send, 3 read loop, 4 close
\* check, 5 client close; 0 for an event that fits none.
Phase(l) ==
    IF l.Kind \in {LogConnect, LogConnectSuccess, LogConnectFail} THEN 1
    ELSE IF l.Kind \in {LogClientCloseConnection, LogClientCloseConnectionSuccess,
                        LogClientCloseConnectionFailed} THEN 5
    ELSE IF l.Kind \in {LogWriteMessage, LogWriteMessageTimeout,
                        LogWriteMessageNetError, LogWriteMessageError,
                        LogWriteMessageSuccess, LogSetWriteDeadlineFailed}
         THEN (IF l.Step = StepSendText THEN 2 ELSE 0)
    ELSE IF l.Kind \in ReadErrorKinds
                       \cup {LogReadMessage, LogReadMessageSuccess,
                             LogSetReadDeadlineFailed}
         THEN (IF l.Step = StepReadMessage THEN 3
               ELSE IF l.Step \in CloseCheckSteps THEN 4
               ELSE IF l.Kind = LogServerClosedConnection /\ l.Step = StepSendText
                    THEN 2
               ELSE 0)
    ELSE 0
\* The read_message_success events of the read loop before event i.
LoopSuccessesBefore(i) ==
    {j \in 1..(i - 1) : /\ wr.Log[j].Kind = LogReadMessageSuccess
                        /\ wr.Log[j].Step = StepReadMessage}
\* The outcome events an attempt event can be followed by; a write whose
\* deadline cannot be set ends in set_write_deadline_failed.
OutcomesOf(kind) ==
    IF kind = LogWriteMessage
    THEN {LogWriteMessageSuccess, LogWriteMessageTimeout, LogWriteMessageNetError,
          LogWriteMessageError, LogServerClosedConnection, LogSetWriteDeadlineFailed}
    ELSE IF kind = LogReadMessage
    THEN ReadErrorKinds \cup {LogReadMessageSuccess}
    ELSE {LogClientCloseConnectionSuccess, LogClientCloseConnectionFailed}
AttemptKinds == {LogWriteMessage, LogReadMessage, LogClientCloseConnection}
AllOutcomeKinds ==
    OutcomesOf(LogWriteMessage) \cup OutcomesOf(LogReadMessage)
      \cup OutcomesOf(LogClientCloseConnection)

\* C18: the log of a run goes through the phases in order and never back:
\* connect and its outcome; the send events, only if send_text_message is not
\* empty; the read-loop events tagged read_message; the events of at most one
\* close-check read (exactly one in a run that gets to the client close), made
\* only after expect_messages messages were received in the read loop; the
\* client-close events.  Every attempt event is directly followed by an outcome
\* event of that attempt, and every outcome event directly follows its attempt.
C18_PhasesInOrder ==
    /\ \A i \in 1..Len(wr.Log) : Phase(wr.Log[i]) # 0
    /\ \A i, j \in 1..Len(wr.Log) :
         i < j => Phase(wr.Log[i]) <= Phase(wr.Log[j])
    /\ \A i \in 1..Len(wr.Log) :
         /\ wr.Log[i].Kind = LogConnect <=> i = 1
         /\ wr.Log[i].Kind \in {LogConnectSuccess, LogConnectFail} <=> i = 2
         /\ Phase(wr.Log[i]) = 2 => wt.SendTextMessage # ""
         /\ (Phase(wr.Log[i]) > 2 /\ wt.SendTextMessage # "") =>
              /\ wr.Log[3].Kind = LogWriteMessage
              /\ wr.Log[4].Kind = LogWriteMessageSuccess
         /\ Phase(wr.Log[i]) = 4 =>
              Cardinality(LoopSuccessesBefore(i)) >= wt.ExpectMessages
         /\ wr.Log[i].Kind \in AttemptKinds =>
              /\ i < Len(wr.Log)
              /\ wr.Log[i + 1].Kind \in OutcomesOf(wr.Log[i].Kind)
              /\ wr.Log[i + 1].Step = wr.Log[i].Step
         /\ wr.Log[i].Kind \in AllOutcomeKinds =>
              /\ i > 1
              /\ wr.Log[i - 1].Kind \in AttemptKinds
              /\ wr.Log[i].Kind \in OutcomesOf(wr.Log[i - 1].Kind)
    /\ Cardinality({i \in 1..Len(wr.Log) :
                      /\ wr.Log[i].Kind = LogReadMessage
                      /\ wr.Log[i].Step \in CloseCheckSteps}) <= 1
    /\ HasKind(LogClientCloseConnection) =>
         Cardinality({i \in 1..Len(wr.Log) :
                        /\ wr.Log[i].Kind = LogReadMessage
                        /\ wr.Log[i].Step \in CloseCheckSteps}) = 1
    /\ (wr.ID # "" /\ pc \notin {"dial"}) => Len(wr.Log) >= 2

C18_Witness ==
    /\ Returned
    /\ wr.CloseOK
    /\ wt.SendTextMessage # ""
    /\ wt.ExpectMessages > 1
    /\ Cardinality(ReadAttempts(wr.Log, StepReadMessage)) = wt.ExpectMessages
    /\ ReadAttempts(wr.Log, StepUnexpectedServerClose) # {}

\* The outcome event a return of ReadMessage or WriteMessage is logged as.
Classified(e) ==
    IF e.o.type = "CloseError" THEN LogServerClosedConnection
    ELSE IF e.o = NetTimeout
    THEN (IF e.op = "read" THEN LogReadMessageTimeout ELSE LogWriteMessageTimeout)
    ELSE IF e.o = NetReset
    THEN (IF e.op = "read" THEN LogReadMessageNetError ELSE LogWriteMessageNetError)
    ELSE IF e.o = OtherError
    THEN (IF e.op = "read" THEN LogReadMessageError ELSE LogWriteMessageError)
    ELSE (IF e.op = "read" THEN LogReadMessageSuccess ELSE LogWriteMessageSuccess)
IsIOOutcome(l) ==
    l.Kind \in (OutcomesOf(LogWriteMessage) \cup OutcomesOf(LogReadMessage))
                 \ {LogSetWriteDeadlineFailed}
IsDelivered(e) == e.op = "read" /\ e.o = NoError
IsPeerClose(e) == e.o.type = "CloseError"

\* C19: the outcome events of the log are, in order, the classification of
\* the reads and sends made, one event each: close frame ->
\* server_closed_connection with its code in server_close_code, timeout ->
\* *_timeout, other transport error -> *_net_error, other error -> *_error, no
\* error -> *_success.  The stored messages are the frames of the successful
\* reads, in order, one each, and messages_received is their number.
C19_Classification ==
    LET outcomes == SelectSeq(wr.Log, IsIOOutcome)
        delivered == SelectSeq(io, IsDelivered)
        closes == SelectSeq(io, IsPeerClose)
    IN  /\ Len(outcomes) = Len(io)
        /\ \A k \in 1..Len(io) :
             /\ outcomes[k].Kind = Classified(io[k])
             /\ io[k].op = "write" => outcomes[k].Step = StepSendText
             /\ IsDelivered(io[k]) => outcomes[k].Value = io[k].frame.type
        /\ wr.MessagesReceived = Len(delivered)
        /\ Len(wr.Messages) = Len(delivered)
        /\ \A j \in 1..Len(delivered) :
             /\ wr.Messages[j].Type = delivered[j].frame.type
             /\ wr.Messages[j].Body[2] = delivered[j].frame.body
             /\ wr.Messages[j].Body[1] =
                  (IF delivered[j].frame.type = BinaryMessage
                   THEN "bytes" ELSE "string")
        /\ Len(closes) <= 1
        /\ wr.ServerCloseCode = (IF closes = <<>> THEN 0 ELSE closes[1].o.code)

C19_Witness ==
    /\ Returned
    /\ Len(io) >= 4
    /\ io[1].op = "write"
    /\ IsDelivered(io[2])
    /\ IsDelivered(io[3])
    /\ io[2].frame # io[3].frame
    /\ IsPeerClose(io[4])

Max0(n) == IF n > 0 THEN n ELSE 0
AllReadAttempts == {i \in 1..Len(wr.Log) : wr.Log[i].Kind = LogReadMessage}
CloseCheckDelivered ==
    \E i \in 1..Len(wr.Log) :
      wr.Log[i].Kind = LogReadMessageSuccess /\ wr.Log[i].Step \in CloseCheckSteps
C20_Bounded ==
    /\ Cardinality(AllReadAttempts) <= Max0(wt.ExpectMessages) + 1
    /\ wr.MessagesReceived = Len(wr.Messages)
    /\ wr.MessagesReceived <= Max0(wt.ExpectMessages) + 1
    /\ wr.MessagesReceived = Max0(wt.ExpectMessages) + 1 <=> CloseCheckDelivered

\* C20: when every call returns, every run returns, and it makes at most
\* max(expect_messages, 0) + 1 read attempts; in every state messages_received is
\* the number of stored messages and at most max(expect_messages, 0) + 1, which
\* it reaches exactly when the close-check read receives a message.
C20_Terminates == [](C20_Bounded) /\ <>Returned

C20_Witness ==
    /\ Returned
    /\ wt.ExpectMessages > 0
    /\ wr.MessagesReceived = wt.ExpectMessages + 1
    /\ Cardinality(AllReadAttempts) = wt.ExpectMessages + 1

====
